---- MODULE Spec2Model ----
(***************************************************************************)
(* Startup sequence of the PYE3 wind farm analysis tool (src/main.py):     *)
(* main(), load_data(), create_empty_data_fallback() and the deferred      *)
(* activation handler on_splash_closed().                                  *)
(*                                                                         *)
(* The collaborators (LogBook, WindFarmDataManager, AuthService,           *)
(* MainWindow, the file system) are the environment: each call that can    *)
(* raise either returns or raises.  Everything the program does that an    *)
(* observer can see (a log entry, a dialog, a call to a collaborator, an   *)
(* exception, the process exit, the start of a stage) is appended to       *)
(* trace, in the order the code does it.                                   *)
(***************************************************************************)
EXTENDS Integers, Sequences, FiniteSets, TLC

\* Attempts of the retry executor (core.services.error_recovery).
MaxAttempts == 2

\* Facility names the selection control can show; "" is no selection.
Parks == {"", "ParkA", "ParkB"}

\* Exit codes app.exec() can return.
ExecCodes == {0, 1}

VARIABLES
    pc,            \* position of main() / of the handler
    trace,         \* observable events, in program order
    dataFile,      \* environment: "ok" | "missing" | "corrupt"
    gifDir,        \* environment: "present" | "creatable" | "uncreatable"
    logo,          \* environment: splash_icon.svg exists
    fallbackLogo,  \* environment: fallback_logo.svg exists
    dataModel,     \* WindFarmDataManager: "uninitialized" | "loaded" | "default"
    loadAttempts,  \* invocations of load_data made by the retry executor
    fbAttempts,    \* invocations of _create_empty_data_fallback_impl
    LOGO_PATH,     \* local of main()
    authService,   \* AuthService constructed
    window,        \* MainWindow constructed
    ui,            \* what the window exposes to the handler
    splashLogo,    \* logo_path the splash was configured with ("" = no splash)
    connected,     \* on_splash_closed is connected to splash_closed
    emitted,       \* splash_closed has been emitted
    handlerRuns,   \* times on_splash_closed was entered
    ran,           \* tasks of the handler that were executed
    handlerRaised, \* an exception left on_splash_closed
    updateRaised,  \* check_for_updates raised
    t4FailAt,      \* step of task 4 that raises (0 = none)
    memRaised,     \* _monitor_memory_usage raised
    authBound,     \* window.set_auth_service was called
    views,         \* park shown by dashboard, import page, title bar
    failedStage,   \* stage whose failure ended the process ("none")
    exitCode       \* process exit status (-1 = running)

vars == <<pc, trace, dataFile, gifDir, logo, fallbackLogo, dataModel,
          loadAttempts, fbAttempts, LOGO_PATH, authService, window, ui,
          splashLogo, connected, emitted, handlerRuns, ran, handlerRaised,
          updateRaised, t4FailAt, memRaised, authBound, views, failedStage,
          exitCode>>

envVars == <<dataFile, gifDir, logo, fallbackLogo>>
handlerVars == <<handlerRuns, ran, handlerRaised, updateRaised, t4FailAt,
                 memRaised, authBound, views>>

----------------------------------------------------------------------------
\* Events.

Ev(type, name, level, arg, code) ==
    [type |-> type, name |-> name, level |-> level, arg |-> arg, code |-> code]

\* global_logbook.log_event(username, category, message, level)
LogEv(cat, level) == Ev("log", cat, level, {}, 0)
\* QMessageBox.critical / QMessageBox.warning (title, what the text names)
DialogEv(kind, title, mentions) == Ev("dialog", title, kind, mentions, 0)
CallEv(name) == Ev("call", name, "", {}, 0)
RaiseEv(name) == Ev("raise", name, "", {}, 0)
StageEv(name) == Ev("stage", name, "", {}, 0)
ExitEv(code) == Ev("exit", "", "", {}, code)

IsLog(e) == e.type = "log"
IsDialog(e) == e.type = "dialog"
IsCriticalDialog(e) == e.type = "dialog" /\ e.level = "critical"
IsErrorLog(e) == e.type = "log" /\ e.level = "error"

Count(s, P(_)) == Len(SelectSeq(s, P))
Indices(s) == 1..Len(s)

----------------------------------------------------------------------------
\* handle_critical_errors: what the boundary does with an exception that
\* leaves main().  sys.exit raises SystemExit, which is not an Exception and
\* passes through the boundary.
handle_critical_errors ==
    << LogEv("Critical Error", "error"),
       DialogEv("critical", "Critical Error", {}),
       ExitEv(1) >>

\* A stage of main() raised and nothing in main() catches it.
Escapes(stage, events) ==
    /\ trace' = trace \o events \o <<RaiseEv(stage)>> \o handle_critical_errors
    /\ failedStage' = stage
    /\ exitCode' = 1
    /\ pc' = "Exited"

----------------------------------------------------------------------------
\* No view shows a park before the handler runs.
InitViews == [dashboard |-> "", import |-> "", title |-> ""]

Init ==
    /\ pc = "LoggingInit"
    /\ trace = << >>
    /\ dataFile \in {"ok", "missing", "corrupt"}
    /\ gifDir \in {"present", "creatable", "uncreatable"}
    /\ logo \in BOOLEAN
    /\ fallbackLogo \in BOOLEAN
    /\ dataModel = "uninitialized"
    /\ loadAttempts = 0
    /\ fbAttempts = 0
    /\ LOGO_PATH = "splash_icon.svg"
    /\ authService = FALSE
    /\ window = FALSE
    /\ ui = [park |-> "", hasSetAuth |-> FALSE, hasImport |-> FALSE]
    /\ splashLogo = ""
    /\ connected = FALSE
    /\ emitted = FALSE
    /\ handlerRuns = 0
    /\ ran = {}
    /\ handlerRaised = FALSE
    /\ updateRaised = FALSE
    /\ t4FailAt = 0
    /\ memRaised = FALSE
    /\ authBound = FALSE
    /\ views = InitViews
    /\ failedStage = "none"
    /\ exitCode = -1

\* main, lines 98-102: QApplication, LogBook(log_file=...), username.
LoggingInit ==
    /\ pc = "LoggingInit"
    /\ \E ok \in BOOLEAN :
         IF ok
         THEN /\ trace' = trace \o <<StageEv("LoggingInit")>>
              /\ pc' = "DataBootstrap"
              /\ UNCHANGED <<failedStage, exitCode>>
         ELSE Escapes("LoggingInit", <<StageEv("LoggingInit")>>)
    /\ UNCHANGED <<envVars, dataModel, loadAttempts, fbAttempts, LOGO_PATH,
                   authService, window, ui, splashLogo, connected, emitted,
                   handlerVars>>

----------------------------------------------------------------------------
\* DataBootstrap.

\* Outcomes of one call of WindFarmDataManager.create_default_data: it
\* returns, raises an I/O error, or raises something else.
CreateOutcomes == {"ok", "io", "other"}

\* A variant of load_data that logs the other failures and raises them again
\* instead of returning False.
load_data_Reraises(df, cr, dm) ==
    IF df = "ok"
    THEN [events |-> <<CallEv("load_data")>>,
          ret |-> "True", cause |-> "", data |-> "loaded"]
    ELSE IF df = "missing"
    THEN [events |-> << CallEv("load_data"),
                        LogEv("Data Loading Error", "error"),
                        LogEv("Data Creation", "info"),
                        CallEv("create_default_data") >>
                     \o (IF cr = "ok" THEN << >>
                         ELSE <<RaiseEv("create_default_data")>>),
          ret |-> IF cr = "ok" THEN "True" ELSE "raise",
          cause |-> IF cr = "ok" THEN "" ELSE cr,
          data |-> IF cr = "ok" THEN "default" ELSE dm]
    ELSE [events |-> << CallEv("load_data"),
                        LogEv("Data Loading Error", "error"),
                        RaiseEv("load_data") >>,
          ret |-> "raise", cause |-> "other", data |-> dm]

\* A variant of load_data that creates the default data before it logs.
load_data_CreatesFirst(df, cr, dm) ==
    IF df = "ok"
    THEN [events |-> <<CallEv("load_data")>>,
          ret |-> "True", cause |-> "", data |-> "loaded"]
    ELSE IF df = "missing"
    THEN [events |-> << CallEv("load_data"),
                        CallEv("create_default_data") >>
                     \o (IF cr = "ok"
                         THEN << LogEv("Data Loading Error", "error"),
                                 LogEv("Data Creation", "info") >>
                         ELSE <<RaiseEv("create_default_data")>>),
          ret |-> IF cr = "ok" THEN "True" ELSE "raise",
          cause |-> IF cr = "ok" THEN "" ELSE cr,
          data |-> IF cr = "ok" THEN "default" ELSE dm]
    ELSE [events |-> << CallEv("load_data"),
                        LogEv("Data Loading Error", "error") >>,
          ret |-> "False", cause |-> "", data |-> dm]

\* One invocation of the body of load_data (lines 36-55), data_path as
\* main() passes it and no chunk_size.  df is what
\* WindFarmDataManager.load_data does with the file, cr what
\* create_default_data does if it is called, dm the data model before.
load_data(df, cr, dm) ==
    IF df = "ok"
    THEN [events |-> <<CallEv("load_data")>>,
          ret |-> "True", cause |-> "", data |-> "loaded"]
    ELSE IF df = "missing"
    THEN [events |-> << CallEv("load_data"),
                        LogEv("Data Loading Error", "error"),
                        LogEv("Data Creation", "info"),
                        CallEv("create_default_data") >>
                     \o (IF cr = "ok" THEN << >>
                         ELSE <<RaiseEv("create_default_data")>>),
          ret |-> IF cr = "ok" THEN "True" ELSE "raise",
          cause |-> IF cr = "ok" THEN "" ELSE cr,
          data |-> IF cr = "ok" THEN "default" ELSE dm]
    ELSE [events |-> << CallEv("load_data"),
                        LogEv("Data Loading Error", "error") >>,
          ret |-> "False", cause |-> "", data |-> dm]

\* A variant of the fallback that creates the data without telling the user.
create_empty_data_fallback_impl_NoWarning(cr, dm) ==
    IF cr = "ok"
    THEN [events |-> << LogEv("Data Loading Fallback", "warning"),
                        CallEv("create_default_data") >>,
          ret |-> "None", cause |-> "", data |-> "default"]
    ELSE [events |-> << LogEv("Data Loading Fallback", "warning"),
                        CallEv("create_default_data"),
                        RaiseEv("create_default_data") >>,
          ret |-> "raise", cause |-> cr, data |-> dm]

\* One invocation of _create_empty_data_fallback_impl (lines 66-85).
create_empty_data_fallback_impl(cr, dm) ==
    IF cr = "ok"
    THEN [events |-> << LogEv("Data Loading Fallback", "warning"),
                        CallEv("create_default_data"),
                        DialogEv("warning", "Data Loading Error", {}) >>,
          ret |-> "None", cause |-> "", data |-> "default"]
    ELSE [events |-> << LogEv("Data Loading Fallback", "warning"),
                        CallEv("create_default_data"),
                        RaiseEv("create_default_data") >>,
          ret |-> "raise", cause |-> cr, data |-> dm]

\* The causes the retry executor retries.
Retryable(cause) == cause = "io"

\* A variant of the executor that retries whatever the cause.
file_operation_retry_AnyCause(ret, cause, n) ==
    IF ret # "raise" THEN "return"
    ELSE IF n < MaxAttempts THEN "retry"
    ELSE "propagate"

\* ErrorRecoveryManager.file_operation_retry after attempt n of the wrapped
\* operation: hand its value back, try again, or let the failure go to the
\* caller.
file_operation_retry(ret, cause, n) ==
    IF ret # "raise" THEN "return"
    ELSE IF Retryable(cause) /\ n < MaxAttempts THEN "retry"
    ELSE "propagate"

\* The executor logs each failed attempt.
RetryLog(r) ==
    IF r.ret = "raise" THEN <<LogEv("Retry Attempt Failed", "warning")>> ELSE << >>

\* Attempt n of the wrapped operation op is over; its outcome is the value
\* it returned or the cause it raised with.
AttemptEv(op, r, n) ==
    Ev("attempt", op, IF r.ret = "raise" THEN r.cause ELSE r.ret, {}, n)

\* main, lines 105-107: load_data(data_file_path) under the retry executor;
\* one step per attempt.  An exception that leaves the executor is caught at
\* line 108 and main() goes on in create_empty_data_fallback.
DataBootstrap ==
    /\ pc = "DataBootstrap"
    /\ \E cr \in CreateOutcomes :
         LET r == load_data(dataFile, cr, dataModel)
             n == loadAttempts + 1
             d == file_operation_retry(r.ret, r.cause, n)
             begin == IF loadAttempts = 0 THEN <<StageEv("DataBootstrap")>> ELSE << >>
         IN /\ trace' = trace \o begin \o r.events
                            \o <<AttemptEv("load_data", r, n)>> \o RetryLog(r)
            /\ dataModel' = r.data
            /\ loadAttempts' = n
            /\ pc' = CASE d = "return" -> "ResourceResolution"
                       [] d = "retry" -> "DataBootstrap"
                       [] OTHER -> "Fallback"
    /\ UNCHANGED <<envVars, fbAttempts, LOGO_PATH, authService, window, ui,
                   splashLogo, connected, emitted, handlerVars, failedStage,
                   exitCode>>

\* main, line 110: create_empty_data_fallback(), the implementation under the
\* retry executor; one step per attempt.  Nothing in main() catches what
\* leaves it.
Fallback ==
    /\ pc = "Fallback"
    /\ \E cr \in CreateOutcomes :
         LET r == create_empty_data_fallback_impl(cr, dataModel)
             n == fbAttempts + 1
             d == file_operation_retry(r.ret, r.cause, n)
         IN /\ dataModel' = r.data
            /\ fbAttempts' = n
            /\ IF d = "propagate"
               THEN Escapes("DataBootstrap",
                            r.events \o <<AttemptEv("fallback", r, n)>>
                            \o RetryLog(r))
               ELSE /\ trace' = trace \o r.events
                                   \o <<AttemptEv("fallback", r, n)>> \o RetryLog(r)
                    /\ pc' = IF d = "return" THEN "ResourceResolution" ELSE "Fallback"
                    /\ UNCHANGED <<failedStage, exitCode>>
    /\ UNCHANGED <<envVars, loadAttempts, LOGO_PATH, authService, window, ui,
                   splashLogo, connected, emitted, handlerVars>>

----------------------------------------------------------------------------
\* ResourceResolution.

\* Variants of GifDirResolution with a slip in them, for checking that the
\* properties below depend on it.
GifDirResolution_Silent(g) ==
    IF g = "present"
    THEN [events |-> <<CallEv("is_dir")>>, exit |-> -1]
    ELSE IF g = "creatable"
    THEN [events |-> << CallEv("is_dir"), CallEv("mkdir"),
                        LogEv("Resource Creation", "info") >>,
          exit |-> -1]
    ELSE [events |-> << CallEv("is_dir"), CallEv("mkdir"), RaiseEv("mkdir"),
                        ExitEv(1) >>,
          exit |-> 1]

GifDirResolution_NoErrorText(g) ==
    IF g = "present"
    THEN [events |-> <<CallEv("is_dir")>>, exit |-> -1]
    ELSE IF g = "creatable"
    THEN [events |-> << CallEv("is_dir"), CallEv("mkdir"),
                        LogEv("Resource Creation", "info") >>,
          exit |-> -1]
    ELSE [events |-> << CallEv("is_dir"), CallEv("mkdir"), RaiseEv("mkdir"),
                        LogEv("Resource Error", "error"),
                        LogEv("Resource Error", "error"),
                        DialogEv("critical", "Resource Error", {"GIF_DIRECTORY"}),
                        ExitEv(1) >>,
          exit |-> 1]

\* mkdir failed and the except clause ends in a raise instead of sys.exit(1):
\* the exception goes on to the boundary.
GifDirResolution_Raises(g) ==
    IF g = "present"
    THEN [events |-> <<CallEv("is_dir")>>, exit |-> -1]
    ELSE IF g = "creatable"
    THEN [events |-> << CallEv("is_dir"), CallEv("mkdir"),
                        LogEv("Resource Creation", "info") >>,
          exit |-> -1]
    ELSE [events |-> << CallEv("is_dir"), CallEv("mkdir"), RaiseEv("mkdir"),
                        LogEv("Resource Error", "error"),
                        LogEv("Resource Error", "error"),
                        DialogEv("critical", "Resource Error",
                                 {"GIF_DIRECTORY", "error"}) >>
                     \o handle_critical_errors,
          exit |-> 1]

GifDirResolution_AlwaysCreates(g) ==
    IF g \in {"present", "creatable"}
    THEN [events |-> << CallEv("is_dir"), CallEv("mkdir"),
                        LogEv("Resource Creation", "info") >>,
          exit |-> -1]
    ELSE [events |-> << CallEv("is_dir"), CallEv("mkdir"), RaiseEv("mkdir"),
                        LogEv("Resource Error", "error"),
                        LogEv("Resource Error", "error"),
                        DialogEv("critical", "Resource Error",
                                 {"GIF_DIRECTORY", "error"}),
                        ExitEv(1) >>,
          exit |-> 1]

\* main, lines 121-134: the GIF directory.  g is the state of the directory:
\* it is there, mkdir creates it, or mkdir raises.  exit is the status
\* main() exits with, -1 when it goes on.
GifDirResolution(g) ==
    IF g = "present"
    THEN [events |-> <<CallEv("is_dir")>>, exit |-> -1]
    ELSE IF g = "creatable"
    THEN [events |-> << CallEv("is_dir"),
                        CallEv("mkdir"),
                        LogEv("Resource Creation", "info") >>,
          exit |-> -1]
    ELSE [events |-> << CallEv("is_dir"),
                        CallEv("mkdir"),
                        RaiseEv("mkdir"),
                        LogEv("Resource Error", "error"),
                        LogEv("Resource Error", "error"),
                        DialogEv("critical", "Resource Error",
                                 {"GIF_DIRECTORY", "error"}),
                        ExitEv(1) >>,
          exit |-> 1]

\* Variants of LogoResolution with a slip in them.
LogoResolution_KeepsPath(l, f, path) ==
    IF l
    THEN [events |-> <<CallEv("LOGO_PATH.exists")>>, path |-> path, exit |-> -1]
    ELSE IF f
    THEN [events |-> << CallEv("LOGO_PATH.exists"),
                        LogEv("Resource Warning", "warning"),
                        LogEv("Resource Fallback", "info") >>,
          path |-> path, exit |-> -1]
    ELSE [events |-> << CallEv("LOGO_PATH.exists"),
                        LogEv("Resource Warning", "warning"),
                        DialogEv("critical", "Resource Error", {"LOGO_PATH"}),
                        ExitEv(1) >>,
          path |-> path, exit |-> 1]

LogoResolution_ExitsAnyway(l, f, path) ==
    IF l
    THEN [events |-> <<CallEv("LOGO_PATH.exists")>>, path |-> path, exit |-> -1]
    ELSE [events |-> << CallEv("LOGO_PATH.exists"),
                        LogEv("Resource Warning", "warning"),
                        DialogEv("critical", "Resource Error", {"LOGO_PATH"}),
                        ExitEv(1) >>,
          path |-> path, exit |-> 1]

\* main, lines 136-150: the logo.  l: splash_icon.svg exists, f:
\* fallback_logo.svg exists, path: LOGO_PATH before.  exit is the status
\* main() exits with, -1 when it goes on.
LogoResolution(l, f, path) ==
    IF l
    THEN [events |-> <<CallEv("LOGO_PATH.exists")>>, path |-> path, exit |-> -1]
    ELSE IF f
    THEN [events |-> << CallEv("LOGO_PATH.exists"),
                        LogEv("Resource Warning", "warning"),
                        LogEv("Resource Fallback", "info") >>,
          path |-> "fallback_logo.svg", exit |-> -1]
    ELSE [events |-> << CallEv("LOGO_PATH.exists"),
                        LogEv("Resource Warning", "warning"),
                        DialogEv("critical", "Resource Error", {"LOGO_PATH"}),
                        ExitEv(1) >>,
          path |-> path, exit |-> 1]

\* main, lines 112-134: window icon, resource paths, GIF directory.
ResourceResolution ==
    /\ pc = "ResourceResolution"
    /\ LET r == GifDirResolution(gifDir)
       IN /\ trace' = trace \o <<StageEv("ResourceResolution")>> \o r.events
          /\ pc' = IF r.exit # -1 THEN "Exited" ELSE "LogoCheck"
          /\ exitCode' = r.exit
          /\ failedStage' = IF r.exit # -1 THEN "GifDirectory" ELSE failedStage
    /\ UNCHANGED <<envVars, dataModel, loadAttempts, fbAttempts, LOGO_PATH,
                   authService, window, ui, splashLogo, connected, emitted,
                   handlerVars>>

\* main, lines 136-150.
LogoCheck ==
    /\ pc = "LogoCheck"
    /\ LET r == LogoResolution(logo, fallbackLogo, LOGO_PATH)
       IN /\ trace' = trace \o r.events
          /\ LOGO_PATH' = r.path
          /\ pc' = IF r.exit # -1 THEN "Exited" ELSE "AuthInit"
          /\ exitCode' = r.exit
          /\ failedStage' = IF r.exit # -1 THEN "Logo" ELSE failedStage
    /\ UNCHANGED <<envVars, dataModel, loadAttempts, fbAttempts,
                   authService, window, ui, splashLogo, connected, emitted,
                   handlerVars>>

----------------------------------------------------------------------------
\* AuthInit, WindowConstruction, LoadingScreenDisplay.

\* main, lines 153-154: AuthService() and its logbook.
AuthInit ==
    /\ pc = "AuthInit"
    /\ \E ok \in BOOLEAN :
         IF ok
         THEN /\ trace' = trace \o <<StageEv("AuthInit")>>
              /\ authService' = TRUE
              /\ pc' = "WindowConstruction"
              /\ UNCHANGED <<failedStage, exitCode>>
         ELSE /\ Escapes("AuthInit", <<StageEv("AuthInit")>>)
              /\ UNCHANGED authService
    /\ UNCHANGED <<envVars, dataModel, loadAttempts, fbAttempts, LOGO_PATH,
                   window, ui, splashLogo, connected, emitted, handlerVars>>

\* What a constructed window can expose: the selected park, whether it has
\* set_auth_service, whether its central content has import_raw_data_page.
UIs == [park : Parks, hasSetAuth : BOOLEAN, hasImport : BOOLEAN]

\* main, line 157: MainWindow().
WindowConstruction ==
    /\ pc = "WindowConstruction"
    /\ \/ /\ \E u \in UIs : ui' = u
          /\ trace' = trace \o <<StageEv("WindowConstruction")>>
          /\ window' = TRUE
          /\ pc' = "LoadingScreenDisplay"
          /\ UNCHANGED <<failedStage, exitCode>>
       \/ /\ Escapes("WindowConstruction", <<StageEv("WindowConstruction")>>)
          /\ UNCHANGED <<window, ui>>
    /\ UNCHANGED <<envVars, dataModel, loadAttempts, fbAttempts, LOGO_PATH,
                   authService, splashLogo, connected, emitted, handlerVars>>

\* A variant of LoadingScreenDisplay that enters the event loop right after
\* splash.show(), before the handler is registered.
LoadingScreenDisplay_ExecFirst ==
    /\ pc = "LoadingScreenDisplay"
    /\ splashLogo' = LOGO_PATH
    /\ trace' = trace \o <<StageEv("LoadingScreenDisplay"), CallEv("splash.show"),
                            CallEv("app.exec")>>
    /\ pc' = "EventLoop"
    /\ UNCHANGED <<envVars, dataModel, loadAttempts, fbAttempts, LOGO_PATH,
                   authService, window, ui, connected, emitted, handlerVars,
                   failedStage, exitCode>>

\* main, lines 160-170: SplashScreen(...), splash.show().
LoadingScreenDisplay ==
    /\ pc = "LoadingScreenDisplay"
    /\ splashLogo' = LOGO_PATH
    /\ trace' = trace \o <<StageEv("LoadingScreenDisplay"), CallEv("splash.show")>>
    /\ pc' = "Connect"
    /\ UNCHANGED <<envVars, dataModel, loadAttempts, fbAttempts, LOGO_PATH,
                   authService, window, ui, connected, emitted, handlerVars,
                   failedStage, exitCode>>

\* A variant of Connect that enters the event loop without registering the
\* handler.
Connect_NotRegistered ==
    /\ pc = "Connect"
    /\ trace' = trace \o <<CallEv("app.exec")>>
    /\ pc' = "EventLoop"
    /\ UNCHANGED <<envVars, dataModel, loadAttempts, fbAttempts, LOGO_PATH,
                   authService, window, ui, splashLogo, connected, emitted,
                   handlerVars, failedStage, exitCode>>

\* main, line 235: splash.splash_closed.connect(on_splash_closed); line 237
\* then enters app.exec().
Connect ==
    /\ pc = "Connect"
    /\ connected' = TRUE
    /\ trace' = trace \o <<CallEv("connect"), CallEv("app.exec")>>
    /\ pc' = "EventLoop"
    /\ UNCHANGED <<envVars, dataModel, loadAttempts, fbAttempts, LOGO_PATH,
                   authService, window, ui, splashLogo, emitted, handlerVars,
                   failedStage, exitCode>>

----------------------------------------------------------------------------
\* The event loop and the deferred activation handler on_splash_closed.

\* Queued events (timers, signals) are dispatched only while app.exec() runs
\* (line 237); main() processes none between splash.show() and connect().
EventsProcessed == pc = "EventLoop"

\* The loading screen reports completion once, after it was shown.
SplashMayClose == splashLogo # "" /\ ~emitted

SignalEv(name) == Ev("signal", name, "", {}, 0)

\* The splash screen emits splash_closed; the slot on_splash_closed is entered
\* if it is connected, otherwise the signal is lost.
SplashClosed ==
    /\ EventsProcessed
    /\ SplashMayClose
    /\ emitted' = TRUE
    /\ IF connected
       THEN /\ handlerRuns' = handlerRuns + 1
            /\ trace' = trace \o <<SignalEv("splash_closed"),
                                    StageEv("DeferredActivation")>>
            /\ pc' = "Task1"
       ELSE /\ trace' = trace \o <<SignalEv("splash_closed")>>
            /\ UNCHANGED <<handlerRuns, pc>>
    /\ UNCHANGED <<envVars, dataModel, loadAttempts, fbAttempts, LOGO_PATH,
                   authService, window, ui, splashLogo, connected, ran,
                   handlerRaised, updateRaised, t4FailAt, memRaised,
                   authBound, views, failedStage, exitCode>>

\* app.exec() returns and main() ends in sys.exit (line 237).
AppQuit ==
    /\ pc = "EventLoop"
    /\ \E c \in ExecCodes :
         /\ exitCode' = c
         /\ trace' = trace \o <<ExitEv(c)>>
    /\ pc' = "Exited"
    /\ UNCHANGED <<envVars, dataModel, loadAttempts, fbAttempts, LOGO_PATH,
                   authService, window, ui, splashLogo, connected, emitted,
                   handlerVars, failedStage>>

\* Lines 178-179.  raises: set_auth_service raises.  escapes: the exception
\* leaves on_splash_closed.
BindAuthService(u, raises) ==
    IF ~u.hasSetAuth
    THEN [events |-> << >>, bound |-> FALSE, escapes |-> FALSE]
    ELSE IF raises
    THEN [events |-> <<CallEv("set_auth_service"), RaiseEv("set_auth_service")>>,
          bound |-> FALSE, escapes |-> TRUE]
    ELSE [events |-> <<CallEv("set_auth_service")>>,
          bound |-> TRUE, escapes |-> FALSE]

\* A variant of the handler that never calls window.show().
ShowWindow_Skipped(raises) ==
    [events |-> << >>, escapes |-> FALSE]

\* Line 181.
ShowWindow(raises) ==
    IF raises
    THEN [events |-> <<CallEv("window.show"), RaiseEv("window.show")>>,
          escapes |-> TRUE]
    ELSE [events |-> <<CallEv("window.show")>>, escapes |-> FALSE]

\* A variant of UpdateCheck that logs and raises again.
UpdateCheck_Reraises(raises) ==
    IF raises
    THEN [events |-> << CallEv("check_for_updates"),
                        RaiseEv("check_for_updates"),
                        LogEv("Update Check Error", "error") >>,
          escapes |-> TRUE]
    ELSE [events |-> <<CallEv("check_for_updates")>>, escapes |-> FALSE]

\* Lines 184-193.
UpdateCheck(raises) ==
    IF raises
    THEN [events |-> << CallEv("check_for_updates"),
                        RaiseEv("check_for_updates"),
                        LogEv("Update Check Error", "error") >>,
          escapes |-> FALSE]
    ELSE [events |-> <<CallEv("check_for_updates")>>, escapes |-> FALSE]

\* Steps of task 4 that can raise: 1 currentText, 2 update_dashboard,
\* 3 update_park_name, 4 update_selected_park; 0 is none.
FailPoints == 0..4

\* A variant of the except clause of task 4 that only logs.
DashboardError_LogOnly ==
    << LogEv("Dashboard Initialization Error", "error") >>

\* Lines 209-221: the except clause of task 4.
DashboardError ==
    << LogEv("Dashboard Initialization Error", "error"),
       DialogEv("warning", "Dashboard Error", {}) >>

\* A variant of task 4 without the test of line 198: the views are updated
\* with whatever currentText() returned.
FacilityPropagation_NoEmptyCheck(u, failAt, v) ==
    LET read == <<CallEv("currentText")>>
        dash == <<CallEv("update_dashboard")>>
        imp == <<CallEv("update_park_name")>>
        title == <<CallEv("update_selected_park")>>
        v1 == [v EXCEPT !.dashboard = u.park]
        v2 == IF u.hasImport THEN [v1 EXCEPT !.import = u.park] ELSE v1
        v3 == [v2 EXCEPT !.title = u.park]
        upToImport == read \o dash \o (IF u.hasImport THEN imp ELSE << >>)
    IN IF failAt = 1
       THEN [events |-> read \o <<RaiseEv("currentText")>> \o DashboardError,
             views |-> v]
       ELSE IF failAt = 2
       THEN [events |-> read \o dash \o <<RaiseEv("update_dashboard")>>
                        \o DashboardError,
             views |-> v]
       ELSE IF failAt = 3 /\ u.hasImport
       THEN [events |-> read \o dash \o imp \o <<RaiseEv("update_park_name")>>
                        \o DashboardError,
             views |-> v1]
       ELSE IF failAt = 4
       THEN [events |-> upToImport \o title
                        \o <<RaiseEv("update_selected_park")>> \o DashboardError,
             views |-> v2]
       ELSE [events |-> upToImport \o title, views |-> v3]

\* Lines 196-221.  u: the window's ui, failAt: the step that raises,
\* v: the views before.
FacilityPropagation(u, failAt, v) ==
    LET read == <<CallEv("currentText")>>
        dash == <<CallEv("update_dashboard")>>
        imp == <<CallEv("update_park_name")>>
        title == <<CallEv("update_selected_park")>>
        v1 == [v EXCEPT !.dashboard = u.park]
        v2 == IF u.hasImport THEN [v1 EXCEPT !.import = u.park] ELSE v1
        v3 == [v2 EXCEPT !.title = u.park]
        upToImport == read \o dash \o (IF u.hasImport THEN imp ELSE << >>)
    IN IF failAt = 1
       THEN [events |-> read \o <<RaiseEv("currentText")>> \o DashboardError,
             views |-> v]
       ELSE IF u.park = ""
       THEN [events |-> read, views |-> v]
       ELSE IF failAt = 2
       THEN [events |-> read \o dash \o <<RaiseEv("update_dashboard")>>
                        \o DashboardError,
             views |-> v]
       ELSE IF failAt = 3 /\ u.hasImport
       THEN [events |-> read \o dash \o imp \o <<RaiseEv("update_park_name")>>
                        \o DashboardError,
             views |-> v1]
       ELSE IF failAt = 4
       THEN [events |-> upToImport \o title
                        \o <<RaiseEv("update_selected_park")>> \o DashboardError,
             views |-> v2]
       ELSE [events |-> upToImport \o title, views |-> v3]

\* Lines 224-233.
MemorySampling(raises) ==
    IF raises
    THEN [events |-> << CallEv("_monitor_memory_usage"),
                        RaiseEv("_monitor_memory_usage"),
                        LogEv("Memory Monitoring Error", "warning") >>,
          escapes |-> FALSE]
    ELSE [events |-> <<CallEv("_monitor_memory_usage")>>, escapes |-> FALSE]

\* Where the handler goes after a task: the next task, or back to the event
\* loop with the exception that left the slot.
AfterTask(escapes, next) ==
    /\ pc' = IF escapes THEN "EventLoop" ELSE next
    /\ handlerRaised' = escapes

Task1 ==
    /\ pc = "Task1"
    /\ \E raises \in BOOLEAN :
         LET r == BindAuthService(ui, raises)
         IN /\ trace' = trace \o r.events
            /\ authBound' = r.bound
            /\ AfterTask(r.escapes, "Task2")
    /\ ran' = ran \cup {1}
    /\ UNCHANGED <<envVars, dataModel, loadAttempts, fbAttempts, LOGO_PATH,
                   authService, window, ui, splashLogo, connected, emitted,
                   handlerRuns, updateRaised, t4FailAt, memRaised, views,
                   failedStage, exitCode>>

Task2 ==
    /\ pc = "Task2"
    /\ \E raises \in BOOLEAN :
         LET r == ShowWindow(raises)
         IN /\ trace' = trace \o r.events
            /\ AfterTask(r.escapes, "Task3")
    /\ ran' = ran \cup {2}
    /\ UNCHANGED <<envVars, dataModel, loadAttempts, fbAttempts, LOGO_PATH,
                   authService, window, ui, splashLogo, connected, emitted,
                   handlerRuns, updateRaised, t4FailAt, memRaised, authBound,
                   views, failedStage, exitCode>>

Task3 ==
    /\ pc = "Task3"
    /\ \E raises \in BOOLEAN :
         LET r == UpdateCheck(raises)
         IN /\ trace' = trace \o r.events
            /\ updateRaised' = raises
            /\ AfterTask(r.escapes, "Task4")
    /\ ran' = ran \cup {3}
    /\ UNCHANGED <<envVars, dataModel, loadAttempts, fbAttempts, LOGO_PATH,
                   authService, window, ui, splashLogo, connected, emitted,
                   handlerRuns, t4FailAt, memRaised, authBound, views,
                   failedStage, exitCode>>

Task4 ==
    /\ pc = "Task4"
    /\ \E failAt \in FailPoints :
         LET r == FacilityPropagation(ui, failAt, views)
         IN /\ trace' = trace \o r.events
            /\ views' = r.views
            /\ t4FailAt' = failAt
    /\ AfterTask(FALSE, "Task5")
    /\ ran' = ran \cup {4}
    /\ UNCHANGED <<envVars, dataModel, loadAttempts, fbAttempts, LOGO_PATH,
                   authService, window, ui, splashLogo, connected, emitted,
                   handlerRuns, updateRaised, memRaised, authBound,
                   failedStage, exitCode>>

Task5 ==
    /\ pc = "Task5"
    /\ \E raises \in BOOLEAN :
         LET r == MemorySampling(raises)
         IN /\ trace' = trace \o r.events
            /\ memRaised' = raises
            /\ AfterTask(r.escapes, "EventLoop")
    /\ ran' = ran \cup {5}
    /\ UNCHANGED <<envVars, dataModel, loadAttempts, fbAttempts, LOGO_PATH,
                   authService, window, ui, splashLogo, connected, emitted,
                   handlerRuns, updateRaised, t4FailAt, authBound, views,
                   failedStage, exitCode>>

Next ==
    \/ LoggingInit \/ DataBootstrap \/ Fallback
    \/ ResourceResolution \/ LogoCheck
    \/ AuthInit \/ WindowConstruction \/ LoadingScreenDisplay \/ Connect
    \/ SplashClosed \/ AppQuit
    \/ Task1 \/ Task2 \/ Task3 \/ Task4 \/ Task5

Spec == Init /\ [][Next]_vars

\* The steps the program takes by itself: main() is straight-line code and
\* the handler, once entered, runs its tasks one after the other.  When the
\* splash closes and when the user quits is up to the environment.
Program ==
    \/ LoggingInit \/ DataBootstrap \/ Fallback
    \/ ResourceResolution \/ LogoCheck
    \/ AuthInit \/ WindowConstruction \/ LoadingScreenDisplay \/ Connect
    \/ Task1 \/ Task2 \/ Task3 \/ Task4 \/ Task5

LiveSpec == Init /\ [][Next]_vars /\ WF_vars(Program)
----------------------------------------------------------------------------
\* Reading the trace.

StageBegun(name) == \E i \in Indices(trace) : trace[i] = StageEv(name)
Called(name) == \E i \in Indices(trace) : trace[i] = CallEv(name)
Raised(name) == \E i \in Indices(trace) : trace[i] = RaiseEv(name)
Logged(cat, level) == \E i \in Indices(trace) : trace[i] = LogEv(cat, level)
Times(e) == Cardinality({i \in Indices(trace) : trace[i] = e})

\* on_splash_closed was entered and control is back in the event loop.
HandlerOver == handlerRuns > 0 /\ pc \in {"EventLoop", "Exited"}

\* main() is about to begin ResourceResolution.
AtResourceResolution == pc = "ResourceResolution"

----------------------------------------------------------------------------
\* C1: in on_splash_closed a task that raises neither stops the tasks after
\* it nor lets its exception leave the handler: once the handler is over,
\* all five tasks have run and no exception has left it.
C1_TaskIsolation ==
    HandlerOver => (ran = 1..5 /\ ~handlerRaised)

\* C2: when the load fails with a cause other than file-not-found, the
\* failure is logged and create_default_data has been called (the data model
\* is the default one) by the time ResourceResolution begins.
C2_OtherFailureGetsDefaultData ==
    (dataFile = "corrupt" /\ AtResourceResolution)
        => /\ Logged("Data Loading Error", "error")
           /\ Called("create_default_data")
           /\ dataModel = "default"

\* C3: when the data file does not exist, DataBootstrap always completes (the
\* process never ends in it) and the data model is the default one when
\* ResourceResolution begins.
C3_MissingFileAlwaysCompletes ==
    dataFile = "missing"
        => /\ failedStage # "DataBootstrap"
           /\ AtResourceResolution => dataModel = "default"

\* C4: DataBootstrap is recoverable.  Whatever the load and
\* create_default_data do, the process never ends in DataBootstrap, and when
\* the load failed the failure is logged and a fallback data model is in
\* place when ResourceResolution begins.
C4_DataBootstrapRecoverable ==
    /\ failedStage # "DataBootstrap"
    /\ (dataFile # "ok" /\ AtResourceResolution)
          => /\ Logged("Data Loading Error", "error")
             /\ dataModel # "uninitialized"
\* The last exception raised, and the exit of the process, in the trace.
RaiseIndices == {i \in Indices(trace) : trace[i].type = "raise"}
LastRaise == CHOOSE i \in RaiseIndices : \A j \in RaiseIndices : j <= i

\* The stages whose failure the sequencer treats as Fatal.
FatalStages == {"LoggingInit", "GifDirectory", "AuthInit", "WindowConstruction"}

\* C5: when a Fatal stage fails, the process ends with a non-zero status, the
\* exit is the last thing it does and comes after an error-level log entry
\* and a critical dialog that both follow the failure, and no stage begins
\* after the failure: no window, no splash, no activation handler.
C5_FatalStageTerminates ==
    failedStage \in FatalStages
        => /\ pc = "Exited"
           /\ exitCode > 0
           /\ RaiseIndices # {}
           /\ trace[Len(trace)] = ExitEv(exitCode)
           /\ \E l, d \in Indices(trace) :
                 /\ LastRaise < l /\ l < Len(trace)
                 /\ LastRaise < d /\ d < Len(trace)
                 /\ IsErrorLog(trace[l])
                 /\ IsCriticalDialog(trace[d])
           /\ \A i \in Indices(trace) :
                 i > LastRaise => trace[i].type \notin {"stage", "call"}
           /\ ~window /\ splashLogo = "" /\ handlerRuns = 0
           /\ failedStage # "WindowConstruction" => ~authService

C5_Witness == failedStage = "AuthInit" /\ exitCode = 1

\* C6: when the GIF directory is absent and mkdir raises, main() halts there:
\* exactly one critical dialog is shown, its text names the directory and
\* the error, the exit code is 1, and auth service, window and splash are
\* never constructed.
C6_UncreatableGifDirHalts ==
    (gifDir = "uncreatable" /\ Called("is_dir"))
        => /\ pc = "Exited"
           /\ exitCode = 1
           /\ Count(trace, IsCriticalDialog) = 1
           /\ \A i \in Indices(trace) :
                 IsCriticalDialog(trace[i])
                    => {"GIF_DIRECTORY", "error"} \subseteq trace[i].arg
           /\ ~authService /\ ~window /\ splashLogo = ""

C6_Witness == gifDir = "uncreatable" /\ failedStage = "GifDirectory"

\* C7: when the GIF directory is absent and mkdir succeeds, it is created
\* once, exactly one 'Resource Creation' entry is logged, the step shows no
\* dialog and main() goes on to the logo check; when the directory exists,
\* mkdir is not called and no 'Resource Creation' entry is logged.
IsResourceCreation(e) == e.type = "log" /\ e.name = "Resource Creation"
StageIndex(name) == CHOOSE i \in Indices(trace) : trace[i] = StageEv(name)

C7_GifDirCreatedOrFound ==
    /\ (gifDir = "creatable" /\ Called("is_dir"))
         => /\ Times(CallEv("mkdir")) = 1
            /\ Count(trace, IsResourceCreation) = 1
            /\ Times(LogEv("Resource Creation", "info")) = 1
            /\ failedStage # "GifDirectory"
            /\ pc = "LogoCheck" \/ Called("LOGO_PATH.exists")
            /\ pc = "LogoCheck" =>
                 \A i \in Indices(trace) :
                    i > StageIndex("ResourceResolution") => ~IsDialog(trace[i])
    /\ (gifDir = "present" /\ Called("is_dir"))
         => /\ ~Called("mkdir")
            /\ Count(trace, IsResourceCreation) = 0
            /\ failedStage # "GifDirectory"
            /\ pc = "LogoCheck" \/ Called("LOGO_PATH.exists")

C7_Witness == gifDir = "creatable" /\ pc = "LogoCheck"

\* C8: with the logo absent and the fallback present, one 'Resource Fallback'
\* entry is logged and the splash is configured with the fallback path; with
\* both absent main() halts: critical dialog, exit code non-zero, and no
\* auth service, window, splash or handler.
IsResourceFallback(e) == e.type = "log" /\ e.name = "Resource Fallback"

C8_LogoFallbackOrHalt ==
    /\ (~logo /\ fallbackLogo /\ Called("LOGO_PATH.exists"))
         => /\ Count(trace, IsResourceFallback) = 1
            /\ splashLogo \in {"", "fallback_logo.svg"}
            /\ Called("splash.show") => splashLogo = "fallback_logo.svg"
    /\ (~logo /\ ~fallbackLogo /\ Called("LOGO_PATH.exists"))
         => /\ pc = "Exited"
            /\ exitCode > 0
            /\ IsCriticalDialog(trace[Len(trace) - 1])
            /\ ~authService /\ ~window /\ splashLogo = "" /\ handlerRuns = 0
            /\ ~StageBegun("AuthInit")

C8_Witness == ~logo /\ fallbackLogo /\ splashLogo = "fallback_logo.svg"

\* C9 as stated: when the logo is missing main() never ends at the logo
\* check; it always goes on to AuthInit.
C9_LogoAlwaysRecoverable ==
    (~logo /\ Called("LOGO_PATH.exists"))
        => /\ failedStage # "Logo"
           /\ pc = "AuthInit" \/ StageBegun("AuthInit")

\* C9, amended: when the logo is missing, main() goes on to AuthInit with the
\* fallback logo exactly when the fallback logo exists; when it does not,
\* the process ends at the logo check with exit code 1.
C9_LogoRecoverableWithFallback ==
    (~logo /\ Called("LOGO_PATH.exists"))
        => /\ fallbackLogo
              => /\ failedStage # "Logo"
                 /\ LOGO_PATH = "fallback_logo.svg"
                 /\ pc = "AuthInit" \/ StageBegun("AuthInit")
           /\ ~fallbackLogo
              => /\ failedStage = "Logo"
                 /\ pc = "Exited" /\ exitCode = 1

C9_Witness == ~logo /\ fallbackLogo /\ pc = "AuthInit"

\* C10: if the update check raises, exactly one error-level entry is logged
\* for it, tasks 4 and 5 still run, and what they do (views updated, calls,
\* log entries, dialogs) is what the window's state and their own failures
\* determine, the same as after an update check that returned.
IsUpdateCheckError(e) == e.type = "log" /\ e.name = "Update Check Error"
NotOfUpdateCheck(e) ==
    /\ e.name \notin {"check_for_updates", "Update Check Error"}
    /\ e.type # "exit"
HandlerEvents ==
    SelectSeq(SubSeq(trace, StageIndex("DeferredActivation") + 1, Len(trace)),
              NotOfUpdateCheck)
\* What tasks 1, 2, 4 and 5 do in a handler that ran to its end.
ExpectedHandlerEvents ==
    BindAuthService(ui, FALSE).events \o ShowWindow(FALSE).events
    \o FacilityPropagation(ui, t4FailAt, InitViews).events
    \o MemorySampling(memRaised).events

C10_UpdateCheckFailureIsolated ==
    updateRaised
        => /\ Count(trace, IsUpdateCheckError) = 1
           /\ Times(LogEv("Update Check Error", "error")) = 1
           /\ ~handlerRaised
           /\ pc = "Task4" \/ 4 \in ran
           /\ pc \in {"Task4", "Task5"} \/ 5 \in ran
           /\ 5 \in ran
                => /\ views = FacilityPropagation(ui, t4FailAt, InitViews).views
                   /\ HandlerEvents = ExpectedHandlerEvents

C10_Witness == updateRaised /\ 5 \in ran /\ ui.park # "" /\ t4FailAt = 0
\* C11: the handler runs once per startup and only after the loading screen
\* reported completion: never before the splash is shown and the signal is
\* emitted, never twice, and never zero times once the signal was emitted.
IndexOf(e) == CHOOSE i \in Indices(trace) : trace[i] = e

StageOrder ==
    << "LoggingInit", "DataBootstrap", "ResourceResolution", "AuthInit",
       "WindowConstruction", "LoadingScreenDisplay", "DeferredActivation" >>
IsStage(e) == e.type = "stage"
StagesBegun == SelectSeq(trace, IsStage)
\* The positions main() is at while the named stage is still running.
Running(name) ==
    CASE name = "DataBootstrap" -> {"DataBootstrap", "Fallback"}
      [] name = "ResourceResolution" -> {"LogoCheck"}
      [] name = "LoadingScreenDisplay" -> {"Connect"}
      [] OTHER -> {}

C12_StageOrderFixed ==
    /\ Len(StagesBegun) <= Len(StageOrder)
    /\ \A i \in Indices(StagesBegun) : StagesBegun[i].name = StageOrder[i]
    /\ \A i \in Indices(StagesBegun) :
          i < Len(StagesBegun) => pc \notin Running(StageOrder[i])
    /\ Called("app.exec")
         => /\ connected /\ splashLogo # ""
            /\ IndexOf(CallEv("splash.show")) < IndexOf(CallEv("connect"))
            /\ IndexOf(CallEv("connect")) < IndexOf(CallEv("app.exec"))
    /\ pc \in {"EventLoop", "Task1", "Task2", "Task3", "Task4", "Task5"}
         => Called("app.exec")

C12_Witness == Len(StagesBegun) = 7 /\ Called("app.exec") /\ pc = "Task1"
\* C13: an operation under the retry executor is invoked at most MaxAttempts
\* times, only a retryable failure is followed by another attempt, and the
\* failure reaches the caller exactly when every attempt failed.
WrappedOps == {"load_data", "fallback"}
Attempts(op) ==
    LET Of(e) == e.type = "attempt" /\ e.name = op
    IN SelectSeq(trace, Of)
Failed(a) == a.level \in {"io", "other"}
\* The executor is done with op.
Over(op) ==
    /\ Attempts(op) # << >>
    /\ pc # (IF op = "load_data" THEN "DataBootstrap" ELSE "Fallback")
\* The caller of op got an exception: main() is in its except clause (line
\* 110), or the exception of the fallback left main().
Propagated(op) ==
    IF op = "load_data"
    THEN pc = "Fallback" \/ Attempts("fallback") # << >>
    ELSE failedStage = "DataBootstrap"

C13_RetryExecutorBounded ==
    \A op \in WrappedOps :
       LET a == Attempts(op)
       IN /\ Len(a) <= MaxAttempts
          /\ Len(a) = (IF op = "load_data" THEN loadAttempts ELSE fbAttempts)
          /\ \A i \in Indices(a) :
                /\ a[i].code = i
                /\ i < Len(a) => Retryable(a[i].level)
                /\ (i = Len(a) /\ ~Over(op)) => Retryable(a[i].level)
          /\ Over(op)
               => (Propagated(op) <=> \A i \in Indices(a) : Failed(a[i]))
          /\ ~Over(op) => ~Propagated(op)

C13_Witness ==
    /\ Len(Attempts("load_data")) = MaxAttempts
    /\ Len(Attempts("fallback")) = MaxAttempts
    /\ failedStage = "DataBootstrap"
\* The warning dialog of the fallback (lines 80-85).
DegradedWarning == DialogEv("warning", "Data Loading Error", {})
\* main() went on after DataBootstrap.
PastDataBootstrap ==
    /\ pc \notin {"LoggingInit", "DataBootstrap", "Fallback"}
    /\ failedStage \notin {"LoggingInit", "DataBootstrap"}

\* C14 as stated: whenever main() goes on with a default dataset, whichever
\* path created it, the degraded-functionality warning has been shown, and
\* it precedes splash.show().
C14_DefaultDataAlwaysWarned ==
    (PastDataBootstrap /\ dataModel = "default")
        => /\ Times(DegradedWarning) >= 1
           /\ Called("splash.show")
                => IndexOf(DegradedWarning) < IndexOf(CallEv("splash.show"))

\* C14, amended: the warning is shown, once and before splash.show(), when
\* the default dataset came from create_empty_data_fallback; when load_data
\* created it on the file-not-found path, no dialog is shown for it.
C14_FallbackDataWarned ==
    (PastDataBootstrap /\ dataModel = "default")
        => /\ fbAttempts > 0
              => /\ Times(DegradedWarning) = 1
                 /\ Called("splash.show")
                      => IndexOf(DegradedWarning) < IndexOf(CallEv("splash.show"))
           /\ fbAttempts = 0
              => /\ dataFile = "missing"
                 /\ Times(DegradedWarning) = 0
                 /\ pc = "ResourceResolution" => Count(trace, IsDialog) = 0

C14_Witness == fbAttempts > 0 /\ dataModel = "default" /\ Called("splash.show")
\* What the boundary writes and shows.
BoundaryLog == LogEv("Critical Error", "error")
BoundaryDialog == DialogEv("critical", "Critical Error", {})
\* The stages of main() whose exception nothing in main() catches.
UncaughtStages == {"LoggingInit", "DataBootstrap", "AuthInit", "WindowConstruction"}

\* C15: an exception that leaves main() is handled once by the boundary: one
\* log entry, one notification, non-zero exit, after the exception and in
\* that order.  When a stage showed its own dialog and called sys.exit(1),
\* and when main() ends in sys.exit(app.exec()), the boundary adds nothing.
C15_BoundaryCatchesOnce ==
    /\ failedStage \in UncaughtStages
         => /\ Times(BoundaryLog) = 1
            /\ Times(BoundaryDialog) = 1
            /\ Count(trace, IsCriticalDialog) = 1
            /\ exitCode > 0
            /\ Times(RaiseEv(failedStage)) = 1
            /\ IndexOf(RaiseEv(failedStage)) < IndexOf(BoundaryLog)
            /\ IndexOf(BoundaryLog) < IndexOf(BoundaryDialog)
            /\ IndexOf(BoundaryDialog) < IndexOf(ExitEv(exitCode))
            /\ IndexOf(ExitEv(exitCode)) = Len(trace)
    /\ failedStage \notin UncaughtStages
         => Times(BoundaryLog) = 0 /\ Times(BoundaryDialog) = 0
    /\ failedStage \in {"GifDirectory", "Logo"}
         => Count(trace, IsCriticalDialog) = 1 /\ exitCode = 1
    /\ (pc = "Exited" /\ failedStage = "none")
         => /\ Called("app.exec")
            /\ Count(trace, IsCriticalDialog) = 0
            /\ trace[Len(trace)] = ExitEv(exitCode)

C15_Witness == failedStage = "WindowConstruction" /\ Times(BoundaryLog) = 1
\* Nothing but the data file is wrong: the resources are there and no
\* collaborator has raised.
OtherResourcesValid ==
    /\ gifDir # "uncreatable"
    /\ logo \/ fallbackLogo
    /\ RaiseIndices = {}

\* C16: with the data file missing, the first attempt of load_data logs an
\* error, then the info entry 'Data Creation', then calls
\* create_default_data; if nothing else fails the data model is the default
\* one, the process never exits before the event loop, and window
\* construction and splash.show() are reached.
C16_MissingFileInOrder ==
    (dataFile = "missing" /\ loadAttempts > 0)
        => LET k == StageIndex("DataBootstrap")
           IN /\ trace[k + 1] = CallEv("load_data")
              /\ trace[k + 2] = LogEv("Data Loading Error", "error")
              /\ trace[k + 3] = LogEv("Data Creation", "info")
              /\ trace[k + 4] = CallEv("create_default_data")
              /\ OtherResourcesValid
                   => /\ dataModel = "default"
                      /\ loadAttempts = 1 /\ fbAttempts = 0
                      /\ failedStage = "none"
                      /\ pc = "Exited" => Called("app.exec")
                      /\ Count(trace, IsCriticalDialog) = 0

C16_MissingFileCompletes ==
    /\ []C16_MissingFileInOrder
    /\ (dataFile = "missing" /\ gifDir # "uncreatable" /\ (logo \/ fallbackLogo))
          ~> (RaiseIndices # {} \/ (window /\ Called("splash.show")))

C16_Witness ==
    /\ dataFile = "missing" /\ OtherResourcesValid
    /\ window /\ Called("splash.show") /\ dataModel = "default"
\* Configuration, data file and resources are valid and no collaborator
\* (logbook, auth service, window, data manager) has raised.
AllValid ==
    /\ dataFile = "ok" /\ gifDir = "present" /\ logo
    /\ RaiseIndices = {}

\* C17: when everything is valid and nothing raises, no error-level log
\* entry and no critical dialog is produced, the process exits only through
\* app.exec(), main() reaches the event loop, and once the splash has
\* signalled completion the main window is eventually shown.
C17_NoErrorsOnHappyPath ==
    AllValid
        => /\ Count(trace, IsErrorLog) = 0
           /\ Count(trace, IsCriticalDialog) = 0
           /\ failedStage = "none"
           /\ pc = "Exited" => Called("app.exec")
           /\ dataModel \in {"uninitialized", "loaded"}
           /\ pc \notin {"LoggingInit", "DataBootstrap"} => dataModel = "loaded"
           /\ 3 \in ran => Called("window.show")

C17_HappyPathCompletes ==
    /\ []C17_NoErrorsOnHappyPath
    /\ (dataFile = "ok" /\ gifDir = "present" /\ logo)
          ~> (RaiseIndices # {} \/ Called("app.exec"))
    /\ (emitted /\ dataFile = "ok" /\ gifDir = "present" /\ logo)
          ~> (RaiseIndices # {} \/ Called("window.show"))

C17_Witness == AllValid /\ emitted /\ Called("window.show") /\ 5 \in ran
\* The calls of task 4 and whether one of them raised.
Task4Calls ==
    {"currentText", "update_dashboard", "update_park_name", "update_selected_park"}
Task4Raised == \E c \in Task4Calls : Raised(c)
Task4Log == LogEv("Dashboard Initialization Error", "error")
Task4Dialog == DialogEv("warning", "Dashboard Error", {})
IsTask4Raise(e) == e.type = "raise" /\ e.name \in Task4Calls

\* C18: if a step of task 4 raises, one error-level entry is logged and one
\* warning dialog is shown, in that order after the exception, nothing
\* leaves the handler, and task 5 runs afterwards; if none raises, neither
\* the entry nor the dialog appears.
C18_FacilityFailureIsolated ==
    /\ Task4Raised
         => /\ Count(trace, IsTask4Raise) = 1
            /\ Times(Task4Log) = 1
            /\ Times(Task4Dialog) = 1
            /\ \E c \in Task4Calls :
                  /\ Raised(c)
                  /\ IndexOf(RaiseEv(c)) = IndexOf(Task4Log) - 1
                  /\ IndexOf(CallEv(c)) = IndexOf(Task4Log) - 2
            /\ IndexOf(Task4Dialog) = IndexOf(Task4Log) + 1
            /\ ~handlerRaised
            /\ pc = "Task5" \/ 5 \in ran
            /\ 5 \in ran
                 => IndexOf(Task4Dialog) < IndexOf(CallEv("_monitor_memory_usage"))
    /\ ~Task4Raised
         => Times(Task4Log) = 0 /\ Times(Task4Dialog) = 0

C18_Witness == Raised("update_park_name") /\ 5 \in ran /\ pc = "EventLoop"
\* C19: in task 4, when a park is selected and no step raises, the dashboard,
\* the import page if the window has one, and the title bar are updated, in
\* that order, with the selected park; when currentText() returns "", no view
\* is updated and neither the entry nor the warning of task 4 appears.
C19_SelectedParkPropagated ==
    4 \in ran
        => /\ (ui.park # "" /\ ~Task4Raised)
                => /\ views.dashboard = ui.park
                   /\ views.title = ui.park
                   /\ views.import = (IF ui.hasImport THEN ui.park ELSE "")
                   /\ Times(CallEv("update_dashboard")) = 1
                   /\ Times(CallEv("update_selected_park")) = 1
                   /\ Times(CallEv("update_park_name"))
                         = (IF ui.hasImport THEN 1 ELSE 0)
                   /\ IndexOf(CallEv("currentText"))
                         < IndexOf(CallEv("update_dashboard"))
                   /\ IndexOf(CallEv("update_dashboard"))
                         < IndexOf(CallEv("update_selected_park"))
                   /\ ui.hasImport
                        => /\ IndexOf(CallEv("update_dashboard"))
                                 < IndexOf(CallEv("update_park_name"))
                           /\ IndexOf(CallEv("update_park_name"))
                                 < IndexOf(CallEv("update_selected_park"))
           /\ (ui.park = "" /\ ~Raised("currentText"))
                => /\ views = InitViews
                   /\ ~Called("update_dashboard")
                   /\ ~Called("update_park_name")
                   /\ ~Called("update_selected_park")
                   /\ Times(Task4Log) = 0 /\ Times(Task4Dialog) = 0
                   /\ ~Task4Raised

C19_Witness ==
    /\ 4 \in ran /\ ui.park = "ParkB" /\ ui.hasImport /\ ~Task4Raised
    /\ views = [dashboard |-> "ParkB", import |-> "ParkB", title |-> "ParkB"]
\* create_empty_data_fallback has been entered: main() is in its except
\* clause (line 110).
FallbackInvoked == pc = "Fallback" \/ fbAttempts > 0
IsLoadAttempt(e) == e.type = "attempt" /\ e.name = "load_data"
FirstFallbackIndex ==
    IF Logged("Data Loading Fallback", "warning")
    THEN IndexOf(LogEv("Data Loading Fallback", "warning"))
    ELSE Len(trace) + 1

====
